---- MODULE Spec2Model ----
(***************************************************************************)
(* Ryokushen Financial development utilities.                              *)
(*                                                                         *)
(*   manage_server.py  process discovery through lsof, and the start,      *)
(*                     stop, restart and status commands of the manager    *)
(*   server.py         the port probe, the port scan, the start-up         *)
(*                     conflict resolution and the HTTP request handler    *)
(*                                                                         *)
(* Text (a command word, the output of lsof, a request path) is a sequence *)
(* of one-character strings, so that lower(), strip(), int() and           *)
(* endswith() are computed character by character as Python computes them. *)
(*                                                                         *)
(* Five specifications share the variables; each moves its own part of the *)
(* state and leaves the rest at its initial value:                         *)
(*   SpecPid   get_server_pid applied to every lsof outcome                *)
(*   Spec      the manager's commands over a table of processes            *)
(*   SpecScan  find_available_port over every state of the ports           *)
(*   SpecSrv   server.py's start-up over every state of the ports          *)
(*   SpecHttp  the request handler over requests and served files          *)
(*                                                                         *)
(* Neither script runs in one piece: each waits in the lsof it runs, in    *)
(* time.sleep and in input(), and the processes and the ports of the       *)
(* machine change meanwhile. In Spec and SpecSrv a run is a sequence of    *)
(* stretches, each from one look at the machine up to the next wait, with  *)
(* the steps of the machine in between.                                    *)
(***************************************************************************)
EXTENDS Integers, Sequences, FiniteSets, TLC

VARIABLES
    \* ---- the operating system, as the two scripts see it
    procs,        \* the live process identifiers
    owners,       \* the identifiers lsof lists for port 8080
    lsofPresent,  \* whether the lsof utility can be run
    \* ---- the ports, as server.py meets them
    occupied,     \* the ports on which a bind without SO_REUSEADDR fails
    lingering,    \* those of them held by lingering connections only, on
                  \* which a bind with SO_REUSEADDR goes through
    \* ---- one run of manage_server.py
    mgr,          \* the record of the latest run: where it is (pc: "done",
                  \* or the call or sleep it waits in), its command line
                  \* (argv), what it printed (out), its calls, signals and
                  \* launches in order (trace), what the action function
                  \* returned (ret), the exit code (exit), what it met at its
                  \* first look at the port (pre), and whether the latest step
                  \* was its own (last: "init", "cmd", "env")
    \* ---- get_server_pid on one lsof outcome
    lsofRun,      \* the outcome of subprocess.run(['lsof', ...])
    pidResult,    \* what get_server_pid returned for it
    \* ---- one start-up of server.py
    srv,          \* the record of the start-up
    scan,         \* the record of one call of find_available_port
    \* ---- the request handler
    files,        \* the paths that name a file under the served directory
    request,      \* the request being handled
    response      \* the response written for it

osVars   == <<procs, owners, lsofPresent>>
portVars == <<occupied, lingering>>
mgrVars  == <<mgr>>
pidVars  == <<lsofRun, pidResult>>
srvVars  == <<srv, scan>>
httpVars == <<files, request, response>>
vars     == <<osVars, portVars, mgrVars, pidVars, srvVars, httpVars>>

----------------------------------------------------------------------------
(* Bounds of the model *)

MaxPid == 2
MaxOut == 4
MaxOffset == 11

(* Program constants *)

PORT == 8080
MaxAttempts == 10

\* Python's None, where a process identifier or a port is expected
None == -1

Pids == 1..MaxPid

----------------------------------------------------------------------------
(* Text *)

Whitespace == {" ", "\n"}

DigitChars == <<"0", "1", "2", "3", "4", "5", "6", "7", "8", "9">>

IsDigit(c) == \E d \in 1..10 : DigitChars[d] = c

DigitValue(c) == (CHOOSE d \in 1..10 : DigitChars[d] = c) - 1

\* str(n) for n >= 0
RECURSIVE str(_)
str(n) ==
    IF n < 10 THEN <<DigitChars[n + 1]>>
    ELSE str(n \div 10) \o <<DigitChars[(n % 10) + 1]>>

\* s.lstrip() and s.rstrip() and s.strip(), over the whitespace of the model
RECURSIVE lstrip(_)
lstrip(s) ==
    IF s # <<>> /\ Head(s) \in Whitespace THEN lstrip(Tail(s)) ELSE s

RECURSIVE rstrip(_)
rstrip(s) ==
    IF s # <<>> /\ s[Len(s)] \in Whitespace
    THEN rstrip(SubSeq(s, 1, Len(s) - 1))
    ELSE s

strip(s) == rstrip(lstrip(s))

\* int(s) of a string s. int() strips the whitespace around its argument and
\* then wants decimal digits only: IntRaises(s) says that it raises ValueError,
\* and int(s) is the value when it does not.
RECURSIVE DigitsValue(_)
DigitsValue(s) ==
    IF s = <<>> THEN 0
    ELSE 10 * DigitsValue(SubSeq(s, 1, Len(s) - 1)) + DigitValue(s[Len(s)])

IntRaises(s) ==
    LET t == strip(s) IN t = <<>> \/ \E i \in 1..Len(t) : ~IsDigit(t[i])

int(s) == DigitsValue(strip(s))

\* All sequences over S of length at most n
SeqsUpTo(S, n) == UNION {[1..k -> S] : k \in 0..n}

----------------------------------------------------------------------------
(* manage_server.py: process discovery *)

\* subprocess.run(['lsof', '-ti', ':8080'], capture_output=True, text=True):
\* it raises when the utility is absent, and otherwise captures one line per
\* process identifier.
RECURSIVE LsofLines(_)
LsofLines(S) ==
    IF S = {} THEN <<>>
    ELSE LET p == CHOOSE x \in S : \A y \in S : x <= y
         IN str(p) \o <<"\n">> \o LsofLines(S \ {p})

RunLsof(present, pids) ==
    IF present THEN [raised |-> FALSE, stdout |-> LsofLines(pids)]
    ELSE [raised |-> TRUE, stdout |-> <<>>]

\* get_server_pid(port), given the outcome of the lsof run: the whole stripped
\* output goes through int(), and every exception gives None.
get_server_pid(run) ==
    IF run.raised THEN None
    ELSE IF strip(run.stdout) # <<>>
         THEN IF IntRaises(strip(run.stdout))
              THEN None
              ELSE int(strip(run.stdout))
         ELSE None

is_server_running(run) == get_server_pid(run) # None

\* `if not pid` / `if pid`: None and 0 are both false
Truthy(pid) == pid # None /\ pid # 0

----------------------------------------------------------------------------
(* manage_server.py: the commands *)

\* What a run prints, one record per print() call; pid is None where the
\* message names no process.
Msg(text, pid) == [text |-> text, pid |-> pid]

MsgAlreadyRunning == Msg("Server is already running on port 8080", None)
MsgUseRestart     == Msg("Use './manage_server.py restart' to restart it", None)
MsgStarting       == Msg("Starting server on port 8080...", None)
MsgStarted        == Msg("Server started successfully", None)
MsgStartFailed    == Msg("Failed to start server", None)
MsgNoServer       == Msg("No server is running", None)
MsgStopped(pid)   == Msg("Server stopped", pid)
MsgStopFailed     == Msg("Failed to stop server", None)
MsgRestarting     == Msg("Restarting server...", None)
MsgRunning(pid)   == Msg("Server is running", pid)
MsgUrl            == Msg("URL: http://localhost:8080/", None)
MsgNotRunning     == Msg("Server is not running", None)
MsgUsage          == Msg("Usage: ./manage_server.py [start|stop|restart|status]", None)
MsgUnknown        == Msg("Unknown command", None)
MsgAvailable      == Msg("Available commands: start, stop, restart, status", None)

\* What a run does, in order: a call of an action function, a signal sent
\* with os.kill, an os.kill that raised, a child launched with Popen.
Ev(op, fn, pid) == [op |-> op, fn |-> fn, pid |-> pid]

Say(m, msgs) == [m EXCEPT !.out = @ \o msgs]

Log(m, evs) == [m EXCEPT !.trace = @ \o evs]

\* What one stretch of a run leaves: the record of the run and the process
\* table. A stretch begins with the lsof output the run reads and ends where
\* the run waits next: in the next lsof it starts, or in time.sleep. os.kill
\* and Popen follow the read they depend on without a wait.
Step(m, w) == [m |-> m, w |-> w]

Discover(present, w) == get_server_pid(RunLsof(present, w.owners))

Running(present, w) == is_server_running(RunLsof(present, w.owners))

\* subprocess.Popen([sys.executable, SERVER_SCRIPT]): the child is a new
\* process, which opens the port, waits or exits while the manager sleeps.
\* child = None is a child that has exited before anything looks at the
\* process table again.
Popen(w, child) ==
    IF child = None
    THEN w
    ELSE [procs |-> w.procs \cup {child}, owners |-> w.owners]

\* str.lower(), over the letters of the model
UpperChars == <<"A", "E", "O", "P", "R", "S", "T", "U">>
LowerChars == <<"a", "e", "o", "p", "r", "s", "t", "u">>

LowerChar(c) ==
    IF \E i \in 1..Len(UpperChars) : UpperChars[i] = c
    THEN LowerChars[CHOOSE i \in 1..Len(UpperChars) : UpperChars[i] = c]
    ELSE c

lower(s) == [i \in 1..Len(s) |-> LowerChar(s[i])]

CmdStart   == <<"s", "t", "a", "r", "t">>
CmdStop    == <<"s", "t", "o", "p">>
CmdRestart == <<"r", "e", "s", "t", "a", "r", "t">>
CmdStatus  == <<"s", "t", "a", "t", "u", "s">>

\* command = sys.argv[1].lower()
Command(args) == IF Len(args) < 1 THEN <<>> ELSE lower(args[1])

\* The exit code, had main() passed on the failure of an action function
main_returns_exit_from_action(m, r) ==
    [m EXCEPT !.pc = "done",
              !.ret = IF Command(m.argv) = CmdRestart THEN "None" ELSE r,
              !.exit = IF r = "False" THEN 1 ELSE 0]

\* The action function called by main() has returned r (restart_server
\* returns nothing, whatever start_server returned to it): main() drops the
\* value and runs off its end, and the process exits 0.
main_returns(m, r) ==
    [m EXCEPT !.pc = "done",
              !.ret = IF Command(m.argv) = CmdRestart THEN "None" ELSE r,
              !.exit = 0]

start_server_relaunch(m, w, present, child) ==
    Step([Log(Say(m, <<MsgStarting>>),
              <<Ev("call", "start_server", None), Ev("spawn", "", child)>>)
            EXCEPT !.pc = "start_sleep"],
         Popen(w, child))

\* start_server() up to time.sleep(2): the refusal when a server is running,
\* or the launch of the child
start_server(m, w, present, child) ==
    IF Running(present, w)
    THEN Step(main_returns(
                  Log(Say(m, <<MsgAlreadyRunning, MsgUseRestart>>),
                      <<Ev("call", "start_server", None)>>),
                  "False"),
              w)
    ELSE Step([Log(Say(m, <<MsgStarting>>),
                   <<Ev("call", "start_server", None), Ev("spawn", "", child)>>)
                 EXCEPT !.pc = "start_sleep"],
              Popen(w, child))

\* start_server() after time.sleep(2): the second look at the port
start_server_confirm(m, w, present) ==
    IF Running(present, w)
    THEN Step(main_returns(Say(m, <<MsgStarted>>), "True"), w)
    ELSE Step(main_returns(Say(m, <<MsgStartFailed>>), "False"), w)

\* stop_server() has returned r without sleeping: to main(), or to
\* restart_server, whose next statement is start_server()
stop_server_returns(m, r) ==
    IF Command(m.argv) = CmdRestart
    THEN [m EXCEPT !.pc = "start_server"]
    ELSE main_returns(m, r)

stop_server_blind(m, w, present, kill) ==
    LET pid == IF w.procs = {} THEN 1 ELSE CHOOSE p \in w.procs : TRUE
    IN Step([Log(Say(m, <<MsgStopped(pid)>>),
                 <<Ev("call", "stop_server", None), Ev("kill", "", pid)>>)
               EXCEPT !.pc = "stop_sleep"],
            w)

\* stop_server() up to time.sleep(1). The signal is sent to the process
\* discovery names; what the process does with it shows in the process table
\* later, or never. kill = "raises" is an os.kill that raised (the process
\* is another user's, or has gone since lsof listed it).
stop_server(m, w, present, kill) ==
    LET pid == Discover(present, w) IN
    IF ~Truthy(pid)
    THEN Step(stop_server_returns(
                  Log(Say(m, <<MsgNoServer>>),
                      <<Ev("call", "stop_server", None)>>),
                  "False"),
              w)
    ELSE IF kill = "raises"
    THEN Step(stop_server_returns(
                  Log(Say(m, <<MsgStopFailed>>),
                      <<Ev("call", "stop_server", None),
                        Ev("kill_raised", "", pid)>>),
                  "False"),
              w)
    ELSE Step([Log(Say(m, <<MsgStopped(pid)>>),
                   <<Ev("call", "stop_server", None), Ev("kill", "", pid)>>)
                 EXCEPT !.pc = "stop_sleep"],
              w)

\* stop_server() after time.sleep(1): it returns True, to main() or to
\* restart_server, which calls start_server() at once
stop_server_wakes(m, w, present, child) ==
    IF Command(m.argv) = CmdRestart
    THEN start_server(m, w, present, child)
    ELSE Step(main_returns(m, "True"), w)

restart_server_always_stops(m, w, present) ==
    Step([Log(Say(m, <<MsgRestarting>>), <<Ev("call", "restart_server", None)>>)
            EXCEPT !.pc = "stop_server"],
         w)

\* restart_server() up to the call it makes next: stop_server() when a
\* server is running, start_server() when none is
restart_server(m, w, present) ==
    Step([Log(Say(m, <<MsgRestarting>>), <<Ev("call", "restart_server", None)>>)
            EXCEPT !.pc = IF Running(present, w)
                          THEN "stop_server" ELSE "start_server"],
         w)

status_server(m, w, present) ==
    LET pid == Discover(present, w) IN
    Step(main_returns(
             Log(Say(m, IF Truthy(pid) THEN <<MsgRunning(pid), MsgUrl>>
                        ELSE <<MsgNotRunning>>),
                 <<Ev("call", "status_server", None)>>),
             "None"),
         w)

\* A run of manage_server.py that has just begun: nothing printed, nothing
\* done; pre is the process table, and what discovery makes of it, at the
\* first look the run takes at the port.
Begun(args, w, present) ==
    [pc |-> "main", argv |-> args, out |-> <<>>, trace |-> <<>>,
     ret |-> "None", exit |-> None,
     pre |-> [procs |-> w.procs, owners |-> w.owners,
              pid |-> Discover(present, w)],
     last |-> "cmd"]

\* main() up to the first wait of the action function it calls: args is
\* sys.argv[1:]. sys.exit(1) is reached on a missing or unknown command only.
main(args, w, present, kill, child) ==
    LET m == Begun(args, w, present) IN
    IF Len(args) < 1
    THEN Step([Say(m, <<MsgUsage>>) EXCEPT !.pc = "done", !.exit = 1], w)
    ELSE LET command == lower(args[1]) IN
         IF command = CmdStart THEN start_server(m, w, present, child)
         ELSE IF command = CmdStop THEN stop_server(m, w, present, kill)
         ELSE IF command = CmdRestart THEN restart_server(m, w, present)
         ELSE IF command = CmdStatus THEN status_server(m, w, present)
         ELSE Step([Say(m, <<MsgUnknown, MsgAvailable>>)
                      EXCEPT !.pc = "done", !.exit = 1], w)

\* A run that waited goes on from where it is: pc names the call or the
\* sleep it is in
resume(m, w, present, kill, child) ==
    IF m.pc = "stop_server" THEN stop_server(m, w, present, kill)
    ELSE IF m.pc = "stop_sleep" THEN stop_server_wakes(m, w, present, child)
    ELSE IF m.pc = "start_server" THEN start_server(m, w, present, child)
    ELSE start_server_confirm(m, w, present)

\* The command lines the model runs
Argvs ==
    { <<>>,
      <<CmdStart>>, <<CmdStop>>, <<CmdRestart>>, <<CmdStatus>>,
      << <<"S", "T", "A", "R", "T">> >>,
      << <<"S", "t", "o", "p">> >>,
      << <<"R", "E", "S", "T", "A", "R", "T">>, <<"x">> >>,
      << <<"s", "t", "a", "r", "t", "s">> >>,
      << <<" ", "s", "t", "o", "p">> >>,
      << <<"x">> >>,
      << <<>> >>,
      << <<"x">>, CmdStart >> }

\* os.kill(pid, signal.SIGTERM) returns, or raises
KillOutcomes == {"sent", "raises"}

\* The child Popen launches: a process with an identifier not in use, or
\* one that has exited already
Children(w) == {None} \cup (Pids \ w.procs)

World == [procs |-> procs, owners |-> owners]

----------------------------------------------------------------------------
(* server.py: the port probe and the port scan *)

\* The ports of the model: the target port and the ones after it
PortSpace == PORT..(PORT + MaxOffset)

\* check_port_available(port): bind a fresh socket and, when the bind went
\* through, close it again. The result, and the occupied ports afterwards.
check_port_available(port, occ) ==
    IF port \notin occ
    THEN [result |-> TRUE, occupied |-> (occ \cup {port}) \ {port}]
    ELSE [result |-> FALSE, occupied |-> occ]

\* The loop of find_available_port from its i-th round on
RECURSIVE ScanFrom(_, _, _, _)
ScanFrom(start_port, max_attempts, i, occ) ==
    IF i >= max_attempts
    THEN [port |-> None, occupied |-> occ]
    ELSE CHOOSE r \in
            { IF probe.result
              THEN [port |-> start_port + i, occupied |-> probe.occupied]
              ELSE ScanFrom(start_port, max_attempts, i + 1, probe.occupied) :
                probe \in {check_port_available(start_port + i, occ)} } : TRUE

find_available_port_one_short(start_port, max_attempts, occ) ==
    ScanFrom(start_port, max_attempts - 1, 0, occ)

\* find_available_port(start_port, max_attempts)
find_available_port(start_port, max_attempts, occ) ==
    ScanFrom(start_port, max_attempts, 0, occ)


----------------------------------------------------------------------------
(* server.py: start-up *)

\* kill_existing_server(port) up to time.sleep(1): whether the signal was
\* sent, and to which process. The signal goes out only when int() takes
\* the whole of lsof's output; every exception, and an empty output, give
\* False. What the process does with the signal shows in the ports later,
\* or never.
kill_existing_server(w, present, kill) ==
    LET run == RunLsof(present, w.owners) IN
    IF run.raised \/ strip(run.stdout) = <<>> \/ IntRaises(strip(run.stdout))
       \/ kill = "raises"
    THEN [result |-> FALSE, pid |-> None]
    ELSE [result |-> TRUE, pid |-> int(strip(run.stdout))]

\* ReuseAddressTCPServer(("", port), ...): the socket is bound with
\* SO_REUSEADDR set, so the bind raises OSError only on a port a listener
\* holds: one held by lingering connections alone is taken over.
Bind(port, occ, ling) ==
    IF port \in occ \ ling
    THEN [listening |-> None, occupied |-> occ, lingering |-> ling,
          exit |-> 1, phase |-> "exited"]
    ELSE [listening |-> port, occupied |-> occ \cup {port},
          lingering |-> ling \ {port}, exit |-> None, phase |-> "serving"]

\* What a stretch of the start-up leaves: the record and the ports
Gave(s, occ, ling, code) ==
    [srv |-> [s EXCEPT !.phase = "exited", !.exit = code],
     occupied |-> occ, lingering |-> ling]

\* `with ReuseAddressTCPServer(("", PORT), ...)`: the server listens, or the
\* except branch prints the troubleshooting tips and exits 1
Bound(s, occ, ling) ==
    CHOOSE r \in
        { [srv |-> [s EXCEPT !.phase = b.phase, !.bindTried = s.port,
                             !.listening = b.listening, !.exit = b.exit],
           occupied |-> b.occupied, lingering |-> b.lingering] :
            b \in {Bind(s.port, occ, ling)} } : TRUE

AfterKill_keeps_port(s, choice, occ, ling) ==
    IF choice = <<"2">>
    THEN CHOOSE r \in
            { IF f.port # None /\ f.port # 0
              THEN Bound([s EXCEPT !.scanned = TRUE, !.found = f.port,
                                   !.before = occ],
                         f.occupied, ling)
              ELSE Gave([s EXCEPT !.scanned = TRUE, !.found = f.port,
                                  !.before = occ],
                        f.occupied, ling, 1) :
                f \in {find_available_port(PORT + 1, MaxAttempts, occ)} } : TRUE
    ELSE IF choice = <<"3">>
    THEN Gave(s, occ, ling, 0)
    ELSE Bound(s, occ, ling)

\* The part of __main__ from `if choice == "2"` on: the scan and `PORT =
\* new_port`, or the exit of choice 3, and then the bind of PORT. choice is
\* the stripped input, or "2" after a failed kill; before is the state of
\* the ports the scan met.
AfterKill(s, choice, occ, ling) ==
    IF choice = <<"2">>
    THEN CHOOSE r \in
            { IF f.port # None /\ f.port # 0
              THEN Bound([s EXCEPT !.scanned = TRUE, !.found = f.port,
                                   !.before = occ, !.port = f.port],
                         f.occupied, ling)
              ELSE Gave([s EXCEPT !.scanned = TRUE, !.found = f.port,
                                  !.before = occ],
                        f.occupied, ling, 1) :
                f \in {find_available_port(PORT + 1, MaxAttempts, occ)} } : TRUE
    ELSE IF choice = <<"3">>
    THEN Gave(s, occ, ling, 0)
    ELSE Bound(s, occ, ling)

\* __main__ of server.py up to the prompt: the probe of PORT and, when it
\* went through, the bind; otherwise the script waits in input()
server_main(s, occ, ling) ==
    CHOOSE r \in
        { IF probe.result
          THEN Bound(s, probe.occupied, ling)
          ELSE [srv |-> [s EXCEPT !.phase = "prompt", !.conflict = TRUE],
                occupied |-> probe.occupied, lingering |-> ling] :
            probe \in {check_port_available(PORT, occ)} } : TRUE

\* __main__ from the return of input() on: input is what the operator
\* typed. On choice 1 the script sleeps in kill_existing_server once the
\* signal is sent; a kill that returned False turns the choice into "2".
server_answer(s, input, w, occ, ling, present, kill) ==
    IF strip(input) = <<"1">>
    THEN CHOOSE r \in
            { IF k.result
              THEN [srv |-> [s EXCEPT !.choice = input, !.phase = "kill_sleep",
                                      !.killed = "True", !.signalled = k.pid],
                    occupied |-> occ, lingering |-> ling]
              ELSE AfterKill([s EXCEPT !.choice = input, !.killed = "False",
                                       !.heldAfterKill = PORT \in occ \ ling],
                             <<"2">>, occ, ling) :
                k \in {kill_existing_server(w, present, kill)} } : TRUE
    ELSE AfterKill([s EXCEPT !.choice = input], strip(input), occ, ling)

\* __main__ after the time.sleep(1) of kill_existing_server: the kill
\* returned True, the choice stays "1", and PORT is bound without another
\* probe
server_wakes(s, occ, ling) ==
    AfterKill([s EXCEPT !.heldAfterKill = PORT \in occ \ ling], <<"1">>,
              occ, ling)

----------------------------------------------------------------------------
(* server.py: the request handler *)

\* s.endswith(suffix)
endswith(s, suffix) ==
    /\ Len(s) >= Len(suffix)
    /\ SubSeq(s, Len(s) - Len(suffix) + 1, Len(s)) = suffix

DotJs   == <<".", "j", "s">>
DotHtml == <<".", "h", "t", "m", "l">>

Header(name, value) == [name |-> name, value |-> value]

\* A request: the number of words of its request line, the first three of
\* them (method, path, version; "" for a word that is not there, and the
\* last word for the version when there are more than three), and what
\* its header lines amount to: "plain", "if_modified_since" (an
\* If-Modified-Since naming a time not before the file was last modified,
\* and no If-None-Match) or "too_many" (more header lines, or a longer one,
\* than http.client takes).
Request(n, method, path, version, headers) ==
    [words |-> n, method |-> method, path |-> path, version |-> version,
     headers |-> headers]

\* No request yet, and nothing written. A response is the status line and
\* the headers buffered so far (status 0: no status line), whether the
\* buffer has gone out (sent), and the body written after it.
NoRequest  == Request(0, "", <<>>, "", "plain")
NoResponse == [sent |-> FALSE, status |-> 0, headers |-> <<>>, body |-> "",
               error |-> ""]

\* The versions parse_request takes: HTTP/<major>.<minor> below 2.0
Versions == {"HTTP/1.0", "HTTP/1.1"}

\* BaseHTTPRequestHandler.parse_request, as far as the request line goes:
\* "blank" (no word: nothing is answered), "bad" (send_error before
\* self.command and self.path are set), "too_many" (send_error 431 after
\* they are set) or "ok". A request line of two words is an HTTP/0.9
\* request, which can only be a GET.
parse_request(req) ==
    IF req.words = 0 THEN "blank"
    ELSE IF req.words >= 3 /\ req.version \notin Versions THEN "bad"
    ELSE IF req.words \notin {2, 3} THEN "bad"
    ELSE IF req.words = 2 /\ req.method # "GET" THEN "bad"
    ELSE IF req.headers = "too_many" THEN "too_many"
    ELSE "ok"

\* self.request_version: the third word once it has been accepted, and
\* default_request_version until then
request_version(req) ==
    IF req.words >= 3 /\ req.version \in Versions THEN req.version
    ELSE "HTTP/0.9"

\* BaseHTTPRequestHandler.send_response(code): the status line, then the
\* Server and Date headers; nothing for an HTTP/0.9 request
send_response(req, code) ==
    IF request_version(req) = "HTTP/0.9"
    THEN NoResponse
    ELSE [sent |-> FALSE, status |-> code, body |-> "", error |-> "",
          headers |-> <<Header("Server", "<server version>"),
                        Header("Date", "<now>")>>]

\* BaseHTTPRequestHandler.send_header: nothing for an HTTP/0.9 request
send_header(req, resp, name, value) ==
    IF request_version(req) = "HTTP/0.9"
    THEN resp
    ELSE [resp EXCEPT !.headers = Append(@, Header(name, value))]

\* BaseHTTPRequestHandler.end_headers(): the buffered lines go out; nothing
\* for an HTTP/0.9 request
super_end_headers(req, resp) ==
    IF request_version(req) = "HTTP/0.9"
    THEN resp
    ELSE [resp EXCEPT !.sent = TRUE]

\* What is left of a response when the handler raised before the flush
Raised(what) == [NoResponse EXCEPT !.error = what]

end_headers_plain(req, resp) ==
    IF parse_request(req) \notin {"too_many", "ok"}
    THEN Raised("AttributeError")
    ELSE IF endswith(req.path, DotJs)
    THEN super_end_headers(req,
             send_header(req, resp, "Content-Type", "application/javascript"))
    ELSE super_end_headers(req, resp)

\* MyHTTPRequestHandler.end_headers(): the three CORS headers, the script
\* content type when self.path ends in .js, then the base end_headers.
\* self.path does not exist before the request line has been taken.
end_headers(req, resp) ==
    LET cors == send_header(req,
                    send_header(req,
                        send_header(req, resp, "Access-Control-Allow-Origin", "*"),
                        "Access-Control-Allow-Methods", "GET, POST, OPTIONS"),
                    "Access-Control-Allow-Headers", "Content-Type")
    IN IF parse_request(req) \notin {"too_many", "ok"}
       THEN Raised("AttributeError")
       ELSE IF endswith(req.path, DotJs)
       THEN super_end_headers(req,
                send_header(req, cors, "Content-Type", "application/javascript"))
       ELSE super_end_headers(req, cors)

\* MyHTTPRequestHandler.do_OPTIONS()
do_OPTIONS(req) == end_headers(req, send_response(req, 200))

\* BaseHTTPRequestHandler.send_error(code), for the codes that have a body:
\* an HTML page describing the error, left out of the answer to HEAD
send_error(req, code) ==
    LET resp == end_headers(req,
                    send_header(req,
                        send_header(req,
                            send_header(req, send_response(req, code),
                                        "Connection", "close"),
                            "Content-Type", "text/html;charset=utf-8"),
                        "Content-Length", "<length>"))
    IN IF resp.error = "" /\ req.method # "HEAD"
       THEN [resp EXCEPT !.body = "error page"]
       ELSE resp

\* SimpleHTTPRequestHandler.translate_path: the query and the fragment are
\* not part of the file's name
RECURSIVE translate_path(_)
translate_path(path) ==
    IF path = <<>> \/ Head(path) \in {"?", "#"} THEN <<>>
    ELSE <<Head(path)>> \o translate_path(Tail(path))

\* SimpleHTTPRequestHandler.guess_type
guess_type(file) ==
    IF endswith(file, DotJs) THEN "text/javascript"
    ELSE IF endswith(file, DotHtml) THEN "text/html"
    ELSE "application/octet-stream"

\* SimpleHTTPRequestHandler.send_head, inherited: the headers, and the file
\* object it hands to its caller (f; "" for None): the listing of the
\* served directory, a file, 304 for a file the client has, or the error
\* page
send_head(req, served) ==
    LET file == translate_path(req.path) IN
    IF file = <<"/">>
    THEN [f |-> "listing",
          resp |-> end_headers(req,
                       send_header(req,
                           send_header(req, send_response(req, 200),
                                       "Content-type", "text/html; charset=utf-8"),
                           "Content-Length", "<length>"))]
    ELSE IF file \in served /\ req.headers = "if_modified_since"
    THEN [f |-> "", resp |-> end_headers(req, send_response(req, 304))]
    ELSE IF file \in served
    THEN [f |-> "file",
          resp |-> end_headers(req,
                       send_header(req,
                           send_header(req,
                               send_header(req, send_response(req, 200),
                                           "Content-type", guess_type(file)),
                               "Content-Length", "<length>"),
                           "Last-Modified", "<mtime>"))]
    ELSE [f |-> "", resp |-> send_error(req, 404)]

\* do_GET, inherited: the file send_head returned is copied out
do_GET(req, served) ==
    CHOOSE r \in
        { IF h.f # "" THEN [h.resp EXCEPT !.body = h.f] ELSE h.resp :
            h \in {send_head(req, served)} } : TRUE

\* do_HEAD, inherited
do_HEAD(req, served) == send_head(req, served).resp

\* BaseHTTPRequestHandler.handle_one_request: a request parse_request
\* turned down has been answered by it, with 400 before self.path is set or
\* with 431 after; a method with no do_ method is answered with 501
handle_one_request(req, served) ==
    IF parse_request(req) = "blank" THEN NoResponse
    ELSE IF parse_request(req) = "bad" THEN send_error(req, 400)
    ELSE IF parse_request(req) = "too_many" THEN send_error(req, 431)
    ELSE IF req.method = "GET" THEN do_GET(req, served)
    ELSE IF req.method = "HEAD" THEN do_HEAD(req, served)
    ELSE IF req.method = "OPTIONS" THEN do_OPTIONS(req)
    ELSE send_error(req, 501)

----------------------------------------------------------------------------
(* The state before anything has run *)

NoRun == [raised |-> FALSE, stdout |-> <<>>]

\* The record of a start-up of server.py: where it is (phase), what the
\* operator typed (choice), whether the probe of PORT failed (conflict), what
\* kill_existing_server returned ("no" when it was not called) and to which
\* process it sent its signal, whether a listener held PORT when the script
\* went on after the kill, whether the scan ran, what it returned and the
\* ports it met (before), the value of PORT at the bind, the port whose bind
\* was tried, the port listened on, and the exit code.
NoSrv ==
    [phase |-> "idle", choice |-> <<>>, conflict |-> FALSE, killed |-> "no",
     signalled |-> None, heldAfterKill |-> FALSE, scanned |-> FALSE,
     found |-> None, port |-> PORT, bindTried |-> None, listening |-> None,
     exit |-> None, before |-> {}]

InitOs ==
    /\ procs = {}
    /\ owners = {}
    /\ lsofPresent = TRUE

InitPorts ==
    /\ occupied = {}
    /\ lingering = {}

NoMgr ==
    [pc |-> "done", argv |-> <<>>, out |-> <<>>, trace |-> <<>>,
     ret |-> "None", exit |-> 0,
     pre |-> [procs |-> {}, owners |-> {}, pid |-> None], last |-> "init"]

InitMgr == mgr = NoMgr

NoPidResult == [done |-> FALSE, pid |-> None]

InitPid ==
    /\ lsofRun = NoRun
    /\ pidResult = NoPidResult

NoScan == [done |-> FALSE, from |-> None, found |-> None, before |-> {}]

InitSrv == srv = NoSrv /\ scan = NoScan

InitHttp ==
    /\ files = {}
    /\ request = NoRequest
    /\ response = NoResponse

----------------------------------------------------------------------------
(* Spec: the manager's commands, and the processes that come and go *)

Init ==
    /\ procs = {}
    /\ owners = {}
    /\ lsofPresent \in BOOLEAN
    /\ InitPorts /\ InitMgr /\ InitPid /\ InitSrv /\ InitHttp

\* The outcomes the operating system can give a stretch of a run: only a
\* stretch that signals has a signal outcome, only one that launches has a
\* child.
KillsOf(signals) == IF signals THEN KillOutcomes ELSE {"sent"}

ChildrenOf(launches) == IF launches THEN Children(World) ELSE {None}

\* manage_server.py is run with the command line args, up to its first wait
Main(args) ==
    /\ mgr.pc = "done"
    /\ \E kill \in KillsOf(Command(args) = CmdStop),
          child \in ChildrenOf(Command(args) = CmdStart) :
         \E r \in {main(args, World, lsofPresent, kill, child)} :
            /\ mgr' = r.m
            /\ procs' = r.w.procs
            /\ owners' = r.w.owners
    /\ UNCHANGED <<lsofPresent, portVars, pidVars, srvVars, httpVars>>

Run == \E args \in Argvs : Main(args)

\* The run goes on after a wait
Resume ==
    /\ mgr.pc # "done"
    /\ \E kill \in KillsOf(mgr.pc = "stop_server"),
          child \in ChildrenOf(mgr.pc \in {"start_server", "stop_sleep"}) :
         \E r \in {resume(mgr, World, lsofPresent, kill, child)} :
            /\ mgr' = [r.m EXCEPT !.last = "cmd"]
            /\ procs' = r.w.procs
            /\ owners' = r.w.owners
    /\ UNCHANGED <<lsofPresent, portVars, pidVars, srvVars, httpVars>>

\* A process opens a socket on port 8080 (a listener, or a client connected
\* to it): lsof lists it from now on. The child the manager launched is one
\* of the processes that can.
EnvOpen ==
    \E p \in Pids :
        /\ p \notin owners
        /\ procs' = procs \cup {p}
        /\ owners' = owners \cup {p}
        /\ mgr' = [mgr EXCEPT !.last = IF @ = "init" THEN "init" ELSE "env"]
        /\ UNCHANGED <<lsofPresent, portVars, pidVars, srvVars, httpVars>>

\* A process exits, of itself or on the signal it was sent
EnvExit ==
    \E p \in procs :
        /\ procs' = procs \ {p}
        /\ owners' = owners \ {p}
        /\ mgr' = [mgr EXCEPT !.last = IF @ = "init" THEN "init" ELSE "env"]
        /\ UNCHANGED <<lsofPresent, portVars, pidVars, srvVars, httpVars>>

Next == Run \/ Resume \/ EnvOpen \/ EnvExit

Spec == Init /\ [][Next]_vars

----------------------------------------------------------------------------
(* SpecPid: get_server_pid applied to every outcome of the lsof run *)

\* The characters lsof's output is drawn from: digits, the line break, a
\* blank, and a character that belongs to no number
OutChars == {"1", "2", "\n", " ", "x"}

LsofOutcomes ==
    {[raised |-> TRUE, stdout |-> <<>>]}
        \cup {[raised |-> FALSE, stdout |-> s] : s \in SeqsUpTo(OutChars, MaxOut)}

InitP ==
    /\ lsofRun \in LsofOutcomes
    /\ pidResult = NoPidResult
    /\ InitOs /\ InitPorts /\ InitMgr /\ InitSrv /\ InitHttp

GetPid ==
    /\ ~pidResult.done
    /\ pidResult' = [done |-> TRUE, pid |-> get_server_pid(lsofRun)]
    /\ UNCHANGED <<lsofRun, osVars, portVars, mgrVars, srvVars, httpVars>>

NextP == GetPid

SpecPid == InitP /\ [][NextP]_vars

----------------------------------------------------------------------------
(* SpecScan: find_available_port over every state of the ports *)

\* The ports a scan of MaxAttempts ports can start from and stay in PortSpace
ScanStarts == PORT..(PORT + MaxOffset - MaxAttempts + 1)

InitScan ==
    /\ occupied \in SUBSET PortSpace
    /\ lingering = {}
    /\ InitOs
    /\ InitMgr /\ InitPid /\ InitSrv /\ InitHttp

FindPort ==
    \E P \in ScanStarts :
      \E f \in {find_available_port(P, MaxAttempts, occupied)} :
        /\ ~scan.done
        /\ scan' = [done |-> TRUE, from |-> P, found |-> f.port, before |-> occupied]
        /\ occupied' = f.occupied
        /\ UNCHANGED <<lingering, osVars, srv, mgrVars, pidVars, httpVars>>

NextScan == FindPort

SpecScan == InitScan /\ [][NextScan]_vars


----------------------------------------------------------------------------
(* SpecSrv: one start-up of server.py, and the port changing hands *)

\* What the operator types at the prompt
Inputs == {<<"1">>, <<"2">>, <<"3">>, <<" ", "2">>, <<"x">>}

\* What lsof lists for port 8080 does not follow from whether a bind of the
\* port fails: a client connected to the port is listed, a listener of
\* another user and lingering connections are not. The listed processes are
\* numbered from 1. The ports after 8080 are read by the scan only, in one
\* go and with a bind that lingering connections stop as a listener does, so
\* every state they can be in when the scan runs is a state they start in.
InitS ==
    /\ occupied \in SUBSET PortSpace
    /\ lingering \in SUBSET (occupied \cap {PORT})
    /\ owners \in {1..n : n \in 0..MaxPid}
    /\ procs = owners
    /\ lsofPresent \in BOOLEAN
    /\ InitMgr /\ InitPid /\ InitSrv /\ InitHttp

\* server.py is started
Startup ==
    /\ srv.phase = "idle"
    /\ \E r \in {server_main(srv, occupied, lingering)} :
          /\ srv' = r.srv
          /\ occupied' = r.occupied
          /\ lingering' = r.lingering
    /\ UNCHANGED <<osVars, scan, mgrVars, pidVars, httpVars>>

\* The operator answers the prompt
Answer ==
    /\ srv.phase = "prompt"
    /\ \E input \in Inputs :
         \E kill \in (IF strip(input) = <<"1">> THEN KillOutcomes ELSE {"sent"}) :
           \E r \in {server_answer(srv, input, World, occupied, lingering,
                                   lsofPresent, kill)} :
              /\ srv' = r.srv
              /\ occupied' = r.occupied
              /\ lingering' = r.lingering
    /\ UNCHANGED <<osVars, scan, mgrVars, pidVars, httpVars>>

\* Standard input is closed: input() raises EOFError, which nothing catches,
\* and the script dies with a traceback
NoAnswer ==
    /\ srv.phase = "prompt"
    /\ srv' = [srv EXCEPT !.phase = "exited", !.exit = 1]
    /\ UNCHANGED <<osVars, portVars, scan, mgrVars, pidVars, httpVars>>

\* The second of sleep after the signal is over
Wake ==
    /\ srv.phase = "kill_sleep"
    /\ \E r \in {server_wakes(srv, occupied, lingering)} :
          /\ srv' = r.srv
          /\ occupied' = r.occupied
          /\ lingering' = r.lingering
    /\ UNCHANGED <<osVars, scan, mgrVars, pidVars, httpVars>>

\* KeyboardInterrupt in serve_forever: the socket is closed and the script
\* runs off its end. The port is free again, or, when connections of the
\* server (or those the port had when it was bound) have not expired yet, it
\* lingers: a bind without SO_REUSEADDR still fails on it.
Interrupt ==
    /\ srv.phase = "serving"
    /\ srv' = [srv EXCEPT !.phase = "stopped", !.listening = None, !.exit = 0]
    /\ \/ /\ occupied' = occupied \ {srv.listening}
          /\ lingering' = lingering \ {srv.listening}
       \/ /\ occupied' = occupied \cup {srv.listening}
          /\ lingering' = lingering \cup {srv.listening}
    /\ UNCHANGED <<osVars, scan, mgrVars, pidVars, httpVars>>

\* While the script waits, at the prompt or in its sleep, a process lsof
\* lists for the port exits (of itself, or on the signal it was sent). When
\* it was the listener, the port is released as well (PortReleased).
HolderExits ==
    /\ srv.phase \in {"prompt", "kill_sleep"}
    /\ \E p \in owners :
          /\ procs' = procs \ {p}
          /\ owners' = owners \ {p}
    /\ UNCHANGED <<lsofPresent, portVars, srvVars, mgrVars, pidVars, httpVars>>

\* While the script waits, the listener on port 8080 closes its socket: the
\* port is free, or its connections linger for a while
PortReleased ==
    /\ srv.phase \in {"prompt", "kill_sleep"}
    /\ PORT \in occupied \ lingering
    /\ \/ occupied' = occupied \ {PORT} /\ lingering' = lingering
       \/ occupied' = occupied /\ lingering' = lingering \cup {PORT}
    /\ UNCHANGED <<osVars, srvVars, mgrVars, pidVars, httpVars>>

\* While the script waits, the last lingering connection of port 8080 expires
LingerExpires ==
    /\ srv.phase \in {"prompt", "kill_sleep"}
    /\ PORT \in lingering
    /\ occupied' = occupied \ {PORT}
    /\ lingering' = lingering \ {PORT}
    /\ UNCHANGED <<osVars, srvVars, mgrVars, pidVars, httpVars>>

NextS ==
    Startup \/ Answer \/ NoAnswer \/ Wake \/ Interrupt
        \/ HolderExits \/ PortReleased \/ LingerExpires

SpecSrv == InitS /\ [][NextS]_vars

----------------------------------------------------------------------------
(* SpecHttp: the handler over requests and served files *)

Methods == {"GET", "HEAD", "OPTIONS", "POST", "PUT"}

PathAJs    == <<"/", "a", ".", "j", "s">>
PathBHtml  == <<"/", "b", ".", "h", "t", "m", "l">>
PathCJs    == <<"/", "c", ".", "j", "s">>
PathQuery  == <<"/", "a", ".", "j", "s", "?", "1">>
PathJs     == <<"/", "j", "s">>
PathRoot   == <<"/">>
PathJsDir  == <<"/", "?", ".", "j", "s">>

Paths == {PathAJs, PathBHtml, PathCJs, PathQuery, PathJs, PathRoot, PathJsDir}

HeaderLines == {"plain", "if_modified_since", "too_many"}

\* The request lines of the model: none, a method alone, a method and a
\* path (HTTP/0.9), the two and a version (one parse_request takes, one too
\* high, one that is no version), and a line of four words
Requests ==
    {Request(0, "", <<>>, "", "plain")}
        \cup {Request(1, m, <<>>, "", "plain") : m \in {"GET", "OPTIONS"}}
        \cup {Request(2, m, p, "", h) :
                m \in Methods, p \in Paths, h \in HeaderLines}
        \cup {Request(3, m, p, v, h) :
                m \in Methods, p \in Paths, v \in Versions, h \in HeaderLines}
        \cup {Request(3, m, PathAJs, v, "plain") :
                m \in {"GET", "OPTIONS"}, v \in {"HTTP/2.0", "HTTP/x"}}
        \cup {Request(4, m, PathAJs, "HTTP/1.1", "plain") :
                m \in {"GET", "OPTIONS"}}

InitH ==
    /\ files \in SUBSET {PathAJs, PathBHtml, PathJs}
    /\ request = NoRequest
    /\ response = NoResponse
    /\ InitOs /\ InitPorts /\ InitMgr /\ InitPid /\ InitSrv

\* One connection: the handler is constructed, reads one request and answers
\* it (protocol_version is HTTP/1.0, so the connection is closed after it)
Handle ==
    \E req \in Requests :
        /\ request = NoRequest
        /\ request' = req
        /\ response' = handle_one_request(req, files)
        /\ UNCHANGED <<files, osVars, portVars, mgrVars, pidVars, srvVars>>

NextH == Handle

SpecHttp == InitH /\ [][NextH]_vars

----------------------------------------------------------------------------
(* Claims about the manager *)

Ran(cmd) == mgr.last = "cmd" /\ Command(mgr.argv) = cmd

Did(op) == \E i \in 1..Len(mgr.trace) : mgr.trace[i].op = op

Called(fn) ==
    \E i \in 1..Len(mgr.trace) : mgr.trace[i] = Ev("call", fn, None)

\* C1: start, run when discovery reports an owner of port 8080, launches no
\* child and sends no signal, leaves the processes and the owner of the port
\* as they were, and reports failure with the already-running message.
StartWhenRunningRefuses ==
    (Ran(CmdStart) /\ mgr.pre.pid # None) =>
        /\ mgr.pc = "done"
        /\ ~Did("spawn") /\ ~Did("kill") /\ ~Did("kill_raised")
        /\ procs = mgr.pre.procs
        /\ owners = mgr.pre.owners
        /\ Discover(lsofPresent, World) = mgr.pre.pid
        /\ mgr.ret = "False"
        /\ mgr.out = <<MsgAlreadyRunning, MsgUseRestart>>

StartWhenRunningSeen ==
    /\ Ran(CmdStart)
    /\ mgr.pre.pid # None
    /\ mgr.argv[1] # CmdStart
    /\ Cardinality(procs) = 2

\* C2: stop, run when discovery reports no owner of port 8080, sends no
\* signal and launches nothing, reports not-running, and a status command
\* run right after it reports not-running too.
StopWhenNotRunningIsInert ==
    (Ran(CmdStop) /\ mgr.pre.pid = None) =>
        /\ mgr.pc = "done"
        /\ ~Did("spawn") /\ ~Did("kill") /\ ~Did("kill_raised")
        /\ procs = mgr.pre.procs
        /\ owners = mgr.pre.owners
        /\ mgr.ret = "False"
        /\ mgr.out = <<MsgNoServer>>

StatusRightAfterStop ==
    (/\ Ran(CmdStop) /\ mgr.pre.pid = None /\ mgr.pc = "done"
     /\ mgr'.last = "cmd" /\ Command(mgr'.argv) = CmdStatus)
        => mgr'.out = <<MsgNotRunning>>

StopWhenNotRunning ==
    []StopWhenNotRunningIsInert /\ [][StatusRightAfterStop]_vars

StopWhenNotRunningSeen ==
    /\ Ran(CmdStop)
    /\ mgr.pre.pid = None
    /\ owners # {}
    /\ lsofPresent

\* C3: restart calls stop exactly when discovery reports an owner, calls
\* start after that whatever stop did (or when it was skipped), and sends
\* its signal before it launches a child. While the run is under way stop
\* has been called only if discovery reported an owner; once it is over
\* both calls are on record.
RestartStopsThenStarts ==
    (mgr.last # "init" /\ Command(mgr.argv) = CmdRestart) =>
        /\ Called("stop_server") => (mgr.pre.pid # None)
        /\ mgr.pc # "stop_server" =>
              (Called("stop_server") <=> (mgr.pre.pid # None))
        /\ mgr.pc \in {"start_sleep", "done"} => Called("start_server")
        /\ \A i, j \in 1..Len(mgr.trace) :
              (/\ mgr.trace[i] = Ev("call", "start_server", None)
               /\ mgr.trace[j].op \in {"kill", "kill_raised"}
                    \/ mgr.trace[j] = Ev("call", "stop_server", None))
                 => j < i
        /\ \A i, j \in 1..Len(mgr.trace) :
              (mgr.trace[i].op = "kill" /\ mgr.trace[j].op = "spawn") => i < j

RestartStopsThenStartsSeen ==
    /\ Command(mgr.argv) = CmdRestart
    /\ mgr.pc = "done"
    /\ Did("kill")
    /\ \E i \in 1..Len(mgr.trace) :
          mgr.trace[i].op = "spawn" /\ mgr.trace[i].pid # None
    /\ mgr.out[Len(mgr.out)] = MsgStarted

\* C4: the exit code is non-zero exactly when the command is missing or is
\* none of start, stop, restart, status whatever the case of its letters; a
\* recognised command exits zero also when its action fails.
SameLetter(a, b) ==
    \/ a = b
    \/ \E i \in 1..Len(UpperChars) : {a, b} = {UpperChars[i], LowerChars[i]}

SameWord(a, b) ==
    /\ Len(a) = Len(b)
    /\ \A i \in 1..Len(a) : SameLetter(a[i], b[i])

Recognised(word) ==
    \E cmd \in {CmdStart, CmdStop, CmdRestart, CmdStatus} : SameWord(word, cmd)

ExitCodeByCommand ==
    (mgr.last # "init" /\ mgr.pc = "done") =>
        (mgr.exit # 0 <=> (Len(mgr.argv) < 1 \/ ~Recognised(mgr.argv[1])))

ExitCodeByCommandSeen ==
    /\ Ran(CmdStop)
    /\ mgr.pc = "done"
    /\ Did("kill_raised")
    /\ mgr.ret = "False"
    /\ mgr.exit = 0

----------------------------------------------------------------------------
(* Claims about process discovery *)

\* The whitespace-separated words of s, in order
RECURSIVE Words(_)
Words(s) ==
    LET t == lstrip(s)
        n == IF \E i \in 1..Len(t) : t[i] \in Whitespace
             THEN (CHOOSE i \in 1..Len(t) :
                      /\ t[i] \in Whitespace
                      /\ \A j \in 1..(i - 1) : t[j] \notin Whitespace) - 1
             ELSE Len(t)
    IN IF t = <<>> THEN <<>>
       ELSE <<SubSeq(t, 1, n)>> \o Words(SubSeq(t, n + 1, Len(t)))

IsNumber(word) == word # <<>> /\ \A i \in 1..Len(word) : IsDigit(word[i])

\* The output lists one or more process identifiers, and nothing else
ListsPids(s) ==
    /\ Words(s) # <<>>
    /\ \A i \in 1..Len(Words(s)) : IsNumber(Words(s)[i])

\* C10: discovery returns the first identifier the lookup lists; it returns
\* None when the output is empty or is not a list of identifiers, and when the
\* utility cannot be run.
DiscoveryTakesFirstListed ==
    pidResult.done =>
        IF ~lsofRun.raised /\ ListsPids(lsofRun.stdout)
        THEN pidResult.pid = DigitsValue(Words(lsofRun.stdout)[1])
        ELSE pidResult.pid = None

----------------------------------------------------------------------------
(* Claims about the port scan and the start-up *)

Lowest(S) == CHOOSE p \in S : \A q \in S : p <= q

\* C5: find_available_port(P, 10) returns the lowest port of P..P+9 on which
\* the probe's bind goes through, None when there is none (so P+7 when that
\* is the only one), and leaves every port as it was.
ScanReturnsLowestFree ==
    scan.done =>
        LET free == (scan.from..(scan.from + 9)) \ scan.before IN
        /\ IF free = {} THEN scan.found = None ELSE scan.found = Lowest(free)
        /\ occupied = scan.before

ScanReturnsLowestFreeSeen ==
    /\ scan.done
    /\ (scan.from..(scan.from + 9)) \ scan.before = {scan.from + 7}
    /\ scan.found = scan.from + 7

\* C6: on choice 1, whenever the target port is still held after the
\* termination attempt, the server runs the port scan and does not go on to
\* bind the target port.
ChoiceOneFallsBackToScan ==
    (/\ srv.phase # "idle"
     /\ srv.conflict
     /\ strip(srv.choice) = <<"1">>
     /\ srv.heldAfterKill)
        => (srv.scanned /\ srv.bindTried # PORT)

\* C7: on choice 2 the server probes the MaxAttempts ports after the target
\* port and listens on the first on which the probe's bind goes through; when
\* there is none it exits non-zero and has opened no listening socket.
ChoiceTwoListensOnFirstFree ==
    (/\ srv.phase \in {"serving", "exited"}
     /\ srv.conflict
     /\ strip(srv.choice) = <<"2">>)
        => LET free == ((PORT + 1)..(PORT + 10)) \ srv.before IN
           /\ srv.scanned
           /\ IF free # {}
              THEN /\ srv.phase = "serving"
                   /\ srv.listening = Lowest(free)
                   /\ srv.bindTried = Lowest(free)
              ELSE /\ srv.phase = "exited"
                   /\ srv.exit # 0 /\ srv.exit # None
                   /\ srv.bindTried = None
                   /\ srv.listening = None

ChoiceTwoListensOnFirstFreeSeen ==
    /\ srv.phase = "serving"
    /\ srv.conflict
    /\ srv.choice = <<" ", "2">>
    /\ ((PORT + 1)..(PORT + 10)) \ srv.before = {PORT + 10}
    /\ srv.listening = PORT + 10

----------------------------------------------------------------------------
(* Claims about the request handler *)

Carries(name, value) ==
    /\ \E i \in 1..Len(response.headers) : response.headers[i] = Header(name, value)
    /\ \A i \in 1..Len(response.headers) :
          response.headers[i].name = name => response.headers[i].value = value

\* The handler has put something on the wire
Emitted == response.sent \/ response.body # ""

\* C8: the answer to OPTIONS, on any path, is status 200 with an empty body
\* and without the application/javascript content type.
OptionsAnswerIsBare ==
    (Emitted /\ request.method = "OPTIONS" /\ parse_request(request) = "ok") =>
        /\ response.status = 200
        /\ response.body = ""
        /\ \A i \in 1..Len(response.headers) :
              response.headers[i] # Header("Content-Type", "application/javascript")

HasCors ==
    /\ response.sent
    /\ Carries("Access-Control-Allow-Origin", "*")
    /\ Carries("Access-Control-Allow-Methods", "GET, POST, OPTIONS")
    /\ Carries("Access-Control-Allow-Headers", "Content-Type")

\* C9: every response the handler sends carries the three CORS headers, each
\* with its one fixed value, whatever the path, the method and the status.
EveryResponseCarriesCors == Emitted => HasCors

\* C9, for the requests that name their version: every response to a
\* request line of three words carries the three CORS headers, each with its
\* one fixed value, whatever the path, the method, the status and the header
\* lines.
VersionedResponseCarriesCors ==
    (Emitted /\ request.words = 3) => HasCors

VersionedResponseCarriesCorsSeen ==
    /\ response.sent
    /\ request.method = "POST"
    /\ request.version = "HTTP/1.0"
    /\ response.status = 501
    /\ request.path = PathCJs

====
